---- MODULE Spec2Model ----
(***************************************************************************)
(* A model of db_system.py: the storage accessor over the SQLite table     *)
(* "contacts" (create/list/get/search/update/delete), the CSV export and   *)
(* file backup, and the interactive menu loop that drives them.            *)
(*                                                                         *)
(* Text is a tuple of one-character strings (<<"a","b">> is "ab"), so that *)
(* strip(), lower(), LIKE and the CSV writer are computed character by     *)
(* character.  A Python value that may be None is wrapped: None is <<>>,   *)
(* the text s is <<s>>.                                                    *)
(***************************************************************************)
EXTENDS Integers, Sequences, FiniteSets, TLC

VARIABLES
    rows,      \* the contacts table: a set of row records
    seq,       \* sqlite_sequence.seq of the table: the largest rowid ever used
    issued,    \* history: the identifiers returned by create_contact, in call order
    ret,       \* the last accessor call: its name, arguments, result and exception
    fs,        \* the files of the working directory: name -> "absent" | "file" | "dir"
    pc,        \* the menu loop's position: the prompt it is blocked on, or its end
    loc        \* the menu loop's local variables

vars == <<rows, seq, issued, ret, fs, pc, loc>>

----------------------------------------------------------------------------
(* Bounds of the model.                                                    *)

\* identifiers are assigned up to MaxId; create is disabled beyond it
MaxId == 3

\* in the menu loop identifiers are assigned up to MaxMenuId
MaxMenuId == 2

----------------------------------------------------------------------------
(* Python values.                                                          *)

None == <<>>
Some(s) == <<s>>
IsNone(v) == v = <<>>
Val(v) == v[1]

Max2(a, b) == IF a >= b THEN a ELSE b
Min2(a, b) == IF a <= b THEN a ELSE b

\* A Python int: fits says whether SQLite can bind it as a 64-bit INTEGER.
PyInt(n) == [fits |-> TRUE, v |-> n]
HugeInt == [fits |-> FALSE, v |-> 0]

\* what a prompt reads: a line of text, or a KeyboardInterrupt inside input()
Line(t) == [kind |-> "line", text |-> t]
Interrupt == [kind |-> "interrupt", text |-> <<>>]

\* the locals of one iteration of the loop: what each prompt returned (None
\* before its prompt is reached), the identifier int() gave, and the input last
\* consumed.  No iteration reads a local an earlier one assigned, so they are
\* unset again when an iteration ends.
NoLocals ==
    [name |-> None, email |-> None, phone |-> None, notes |-> None, cid |-> None,
     input |-> Interrupt]

\* the locals at the end of the iteration whose last input was inp
Done(inp) == [NoLocals EXCEPT !.input = inp]

----------------------------------------------------------------------------
(* The table.                                                              *)

Row(id, name, email, phone, notes, created_at) ==
    [id |-> id, name |-> name, email |-> email, phone |-> phone,
     notes |-> notes, created_at |-> created_at]

Ids(rws) == {r.id : r \in rws}

MaxRowid(rws) == IF rws = {} THEN 0 ELSE CHOOSE m \in Ids(rws) : \A i \in Ids(rws) : i <= m

\* INTEGER PRIMARY KEY without AUTOINCREMENT: one more than the largest rowid stored
NextRowidNoAutoincrement(rws, sq) == MaxRowid(rws) + 1

\* INTEGER PRIMARY KEY AUTOINCREMENT: one more than the largest rowid ever used
NextRowid(rws, sq) == Max2(sq, MaxRowid(rws)) + 1

\* the result of a call that returns normally / that raises
\* (wrote is the text the call wrote to the file it opened)
Returned(op, args, val) ==
    [op |-> op, args |-> args, val |-> <<val>>, exc |-> "none", wrote |-> <<>>]
Raised(op, args, exc) ==
    [op |-> op, args |-> args, val |-> <<>>, exc |-> exc, wrote |-> <<>>]
NoCall == [op |-> "none", args |-> <<>>, val |-> <<>>, exc |-> "none", wrote |-> <<>>]

\* ORDER BY id DESC
RECURSIVE OrderByIdDesc(_)
OrderByIdDesc(rws) ==
    IF rws = {} THEN <<>>
    ELSE LET top == CHOOSE r \in rws : \A q \in rws : q.id <= r.id
         IN  <<top>> \o OrderByIdDesc(rws \ {top})

\* LIMIT n: a negative n is no limit
Limit(s, n) == IF n < 0 THEN s ELSE SubSeq(s, 1, Min2(n, Len(s)))

list_contacts(rws, limit) == Limit(OrderByIdDesc(rws), limit)

get_contact(rws, contact_id) ==
    IF \E r \in rws : r.id = contact_id
    THEN Some(CHOOSE r \in rws : r.id = contact_id)
    ELSE None

----------------------------------------------------------------------------
(* Text.                                                                   *)

Upper == <<"A", "B", "C", "D", "E", "F", "G", "H", "I", "J", "K", "L", "M",
           "N", "O", "P", "Q", "R", "S", "T", "U", "V", "W", "X", "Y", "Z">>
Lowercase == <<"a", "b", "c", "d", "e", "f", "g", "h", "i", "j", "k", "l", "m",
               "n", "o", "p", "q", "r", "s", "t", "u", "v", "w", "x", "y", "z">>
Digits == <<"0", "1", "2", "3", "4", "5", "6", "7", "8", "9">>
Whitespace == {" ", "\t", "\n", "\r"}

\* one character of str.lower() and of LIKE's case folding (ASCII letters)
LowerChar(c) ==
    IF \E i \in 1..26 : Upper[i] = c
    THEN Lowercase[CHOOSE i \in 1..26 : Upper[i] = c]
    ELSE c

\* str.lower()
lower(s) == [i \in 1..Len(s) |-> LowerChar(s[i])]

RECURSIVE LStrip(_)
LStrip(s) == IF s # <<>> /\ Head(s) \in Whitespace THEN LStrip(Tail(s)) ELSE s

RECURSIVE RStrip(_)
RStrip(s) ==
    IF s # <<>> /\ s[Len(s)] \in Whitespace THEN RStrip(SubSeq(s, 1, Len(s) - 1)) ELSE s

\* input() returned unchanged
NoStrip(s) == s

\* str.strip()
strip(s) == RStrip(LStrip(s))

IsDigit(c) == \E i \in 1..10 : Digits[i] = c
DigitValue(c) == (CHOOSE i \in 1..10 : Digits[i] = c) - 1

RECURSIVE DigitsValue(_)
DigitsValue(s) ==
    IF s = <<>> THEN 0 ELSE 10 * DigitsValue(SubSeq(s, 1, Len(s) - 1)) + DigitValue(s[Len(s)])

RECURSIVE DropZeros(_)
DropZeros(s) == IF s # <<>> /\ Head(s) = "0" THEN DropZeros(Tail(s)) ELSE s

\* int(text): None for ValueError, else the integer.  A numeral of 20 or more
\* significant digits is beyond 64 bits; the lines of this model have at most 9
\* or at least 20 digits.
ParseInt(text) ==
    LET t == strip(text)
        signed == t # <<>> /\ Head(t) \in {"+", "-"}
        digs == IF signed THEN Tail(t) ELSE t
        sig == DropZeros(digs)
    IN  IF digs = <<>> \/ \E i \in 1..Len(digs) : ~IsDigit(digs[i]) THEN None
        ELSE IF Len(sig) >= 20 THEN Some(HugeInt)
        ELSE Some(PyInt(IF signed /\ Head(t) = "-" THEN 0 - DigitsValue(sig) ELSE DigitsValue(sig)))

\* str(n) of an integer
RECURSIVE DecimalText(_)
DecimalText(n) ==
    IF n < 0 THEN <<"-">> \o DecimalText(0 - n)
    ELSE IF n < 10 THEN <<Digits[n + 1]>>
    ELSE DecimalText(n \div 10) \o <<Digits[(n % 10) + 1]>>

\* whether term occurs in s as a contiguous run of characters
IsSubstring(term, s) ==
    \E i \in 0..(Len(s) - Len(term)) : SubSeq(s, i + 1, i + Len(term)) = term

\* SQLite's LIKE: % matches any run of characters, _ any one character, every
\* other character itself with ASCII case folded; there is no escape character
RECURSIVE Like(_, _)
Like(s, pat) ==
    IF pat = <<>> THEN s = <<>>
    ELSE IF Head(pat) = "%" THEN Like(s, Tail(pat)) \/ (s # <<>> /\ Like(Tail(s), pat))
    ELSE IF s = <<>> THEN FALSE
    ELSE IF Head(pat) = "_" THEN Like(Tail(s), Tail(pat))
    ELSE LowerChar(Head(pat)) = LowerChar(Head(s)) /\ Like(Tail(s), Tail(pat))

\* column LIKE ? on a column that may be NULL: NULL LIKE x is NULL, not true
ColumnLike(v, pat) == ~IsNone(v) /\ Like(Val(v), pat)

search_contacts(rws, term) ==
    LET term_like == <<"%">> \o term \o <<"%">>
    IN  OrderByIdDesc({r \in rws :
            \/ Like(r.name, term_like)
            \/ ColumnLike(r.email, term_like)
            \/ ColumnLike(r.phone, term_like)
            \/ ColumnLike(r.notes, term_like)})

----------------------------------------------------------------------------
(* Files, CSV export and backup.                                           *)

DB_FILENAME == <<"a", "p", "p", "_", "d", "a", "t", "a", "b", "a", "s", "e", ".", "d", "b">>
DefaultCsvFilename ==
    <<"c", "o", "n", "t", "a", "c", "t", "s", "_", "e", "x", "p", "o", "r", "t", ".", "c", "s", "v">>
\* backup_<YYYYMMDD_HHMMSS>.db for the local time of the call
AutoBackupFilename == <<"b", "a", "c", "k", "u", "p", "_", "T", "0", ".", "d", "b">>
\* the working directory, and a path under a directory that does not exist
CurrentDirectory == <<".">>
NoSuchDirPath == <<"x", "/", "b">>

Paths == {DB_FILENAME, DefaultCsvFilename, AutoBackupFilename, CurrentDirectory, NoSuchDirPath}

\* after initialize_db: the database file exists
InitialFiles ==
    [f \in Paths |-> CASE f = DB_FILENAME -> "file"
                       [] f = CurrentDirectory -> "dir"
                       [] f = NoSuchDirPath -> "nodir"
                       [] OTHER -> "absent"]

\* the text the csv module writes for one value: None as nothing, str as it is
OptText(v) == IF IsNone(v) THEN <<>> ELSE Val(v)

RECURSIVE DoubleQuotes(_)
DoubleQuotes(s) ==
    IF s = <<>> THEN <<>>
    ELSE IF Head(s) = "\"" THEN <<"\"", "\"">> \o DoubleQuotes(Tail(s))
    ELSE <<Head(s)>> \o DoubleQuotes(Tail(s))

\* a writer that never quotes
CsvFieldUnquoted(s) == s

\* QUOTE_MINIMAL of the excel dialect: a field holding the delimiter, the quote
\* character or a line break is quoted, its quote characters doubled
CsvField(s) ==
    IF \E i \in 1..Len(s) : s[i] \in {",", "\"", "\r", "\n"}
    THEN <<"\"">> \o DoubleQuotes(s) \o <<"\"">>
    ELSE s

RECURSIVE CsvJoin(_)
CsvJoin(fields) ==
    IF Len(fields) = 1 THEN CsvField(fields[1])
    ELSE CsvField(Head(fields)) \o <<",">> \o CsvJoin(Tail(fields))

\* writer.writerow: the fields, comma separated, ended by "\r\n"
CsvLine(fields) == CsvJoin(fields) \o <<"\r", "\n">>

\* the six values of a fetched row as the writer renders them
RowTexts(r) ==
    <<DecimalText(r.id), r.name, OptText(r.email), OptText(r.phone), OptText(r.notes),
      r.created_at>>

headers == << <<"i", "d">>, <<"n", "a", "m", "e">>, <<"e", "m", "a", "i", "l">>,
              <<"p", "h", "o", "n", "e">>, <<"n", "o", "t", "e", "s">>,
              <<"c", "r", "e", "a", "t", "e", "d", "_", "a", "t">> >>

RECURSIVE CsvLines(_)
CsvLines(rs) == IF rs = <<>> THEN <<>> ELSE CsvLine(RowTexts(Head(rs))) \o CsvLines(Tail(rs))

ExportLimit == 10000

\* export_to_csv: open(csv_filename, "w") fails on a directory and under a
\* directory that does not exist; else the file holds the header and the rows
export_to_csv(rws, fsys, csv_filename) ==
    IF fsys[csv_filename] = "dir" THEN [fs |-> fsys, ret |-> Raised("export", <<csv_filename>>, "IsADirectoryError")]
    ELSE IF fsys[csv_filename] = "nodir" THEN [fs |-> fsys, ret |-> Raised("export", <<csv_filename>>, "FileNotFoundError")]
    ELSE [fs |-> [fsys EXCEPT ![csv_filename] = "file"],
          ret |-> [Returned("export", <<csv_filename>>, csv_filename)
                   EXCEPT !.wrote = CsvLine(headers) \o CsvLines(list_contacts(rws, ExportLimit))]]

\* backup_db(backup_path): backup_path is None or Some(path).  shutil.copy2 onto
\* the database file itself, or into the directory that holds it, raises
\* SameFileError; under a directory that does not exist, FileNotFoundError
backup_db(fsys, backup_path) ==
    LET path == IF IsNone(backup_path) THEN AutoBackupFilename ELSE Val(backup_path)
    IN  IF fsys[DB_FILENAME] # "file"
        THEN [fs |-> fsys, ret |-> Raised("backup", <<backup_path>>, "FileNotFoundError")]
        ELSE IF path = DB_FILENAME \/ path = CurrentDirectory
        THEN [fs |-> fsys, ret |-> Raised("backup", <<backup_path>>, "SameFileError")]
        ELSE IF fsys[path] = "nodir"
        THEN [fs |-> fsys, ret |-> Raised("backup", <<backup_path>>, "FileNotFoundError")]
        ELSE [fs |-> [fsys EXCEPT ![path] = "file"],
              ret |-> Returned("backup", <<backup_path>>, path)]

\* csv.reader of the excel dialect, one character at a time: p holds the
\* parser's state st, the field and the record it is gathering, and the records
\* it has finished
CsvStep(p, c) ==
    LET eol == c \in {"\r", "\n"}
        endField == Append(p.record, p.field)
    IN  CASE p.st \in {"START_RECORD", "EAT_CRNL"} /\ eol ->
                 [p EXCEPT !.st = "START_RECORD"]
          [] p.st \in {"START_RECORD", "EAT_CRNL", "START_FIELD"} /\ ~eol ->
                 IF c = "\"" THEN [p EXCEPT !.st = "IN_QUOTED_FIELD"]
                 ELSE IF c = "," THEN [p EXCEPT !.st = "START_FIELD", !.record = endField]
                 ELSE [p EXCEPT !.st = "IN_FIELD", !.field = <<c>>]
          [] p.st = "START_FIELD" /\ eol ->
                 [st |-> "EAT_CRNL", field |-> <<>>, record |-> <<>>,
                  records |-> Append(p.records, endField)]
          [] p.st = "IN_FIELD" ->
                 IF eol THEN [st |-> "EAT_CRNL", field |-> <<>>, record |-> <<>>,
                              records |-> Append(p.records, endField)]
                 ELSE IF c = "," THEN [p EXCEPT !.st = "START_FIELD", !.field = <<>>,
                                                !.record = endField]
                 ELSE [p EXCEPT !.field = Append(p.field, c)]
          [] p.st = "IN_QUOTED_FIELD" ->
                 IF c = "\"" THEN [p EXCEPT !.st = "QUOTE_IN_QUOTED_FIELD"]
                 ELSE [p EXCEPT !.field = Append(p.field, c)]
          [] p.st = "QUOTE_IN_QUOTED_FIELD" ->
                 IF c = "\"" THEN [p EXCEPT !.st = "IN_QUOTED_FIELD", !.field = Append(p.field, c)]
                 ELSE IF c = "," THEN [p EXCEPT !.st = "START_FIELD", !.field = <<>>,
                                                !.record = endField]
                 ELSE IF eol THEN [st |-> "EAT_CRNL", field |-> <<>>, record |-> <<>>,
                                   records |-> Append(p.records, endField)]
                 ELSE [p EXCEPT !.st = "IN_FIELD", !.field = Append(p.field, c)]

\* the parser run over text[lo..hi], left to right.  The range is halved, and
\* the left half's result is looked at (its st is never "") before the right
\* half starts, so that the evaluation nests no deeper than the logarithm of
\* the length.
RECURSIVE CsvRun(_, _, _, _)
CsvRun(p, text, lo, hi) ==
    IF lo > hi THEN p
    ELSE IF lo = hi THEN CsvStep(p, text[lo])
    ELSE LET mid == (lo + hi) \div 2
             left == CsvRun(p, text, lo, mid)
         IN  IF left.st = "" THEN left ELSE CsvRun(left, text, mid + 1, hi)

\* list(csv.reader(f)) over the text of a file opened with newline=""
ReadCsv(text) ==
    LET p == CsvRun([st |-> "START_RECORD", field |-> <<>>, record |-> <<>>, records |-> <<>>],
                    text, 1, Len(text))
    IN  IF p.st \in {"START_RECORD", "EAT_CRNL"} THEN p.records
        ELSE Append(p.records, Append(p.record, p.field))

----------------------------------------------------------------------------
(* The mutating accessor operations.  Each returns the table after the     *)
(* committed statement and the value the Python function returns.          *)

\* name is a text (None would fail the NOT NULL constraint); email, phone and
\* notes are None or Some(text); created_at is datetime.utcnow().isoformat()
create_contact(rws, sq, name, email, phone, notes, created_at) ==
    LET new_id == NextRowid(rws, sq)
    IN  [rows |-> rws \cup {Row(new_id, name, email, phone, notes, created_at)},
         seq |-> new_id,
         val |-> new_id]

\* UPDATE ... SET over all four columns, whatever was provided
SetAllColumns(r, name, email, phone, notes) ==
    [r EXCEPT !.name = IF IsNone(name) THEN <<>> ELSE Val(name),
              !.email = email, !.phone = phone, !.notes = notes]

\* the SET list built at lines 86-97: one assignment per argument that is not None
SetProvided(r, name, email, phone, notes) ==
    [r EXCEPT !.name = IF IsNone(name) THEN @ ELSE Val(name),
              !.email = IF IsNone(email) THEN @ ELSE email,
              !.phone = IF IsNone(phone) THEN @ ELSE phone,
              !.notes = IF IsNone(notes) THEN @ ELSE notes]

\* "if not updates" dropped: the statement's row count decides alone
AffectedOnly(rws, contact_id, name, email, phone, notes) ==
    \E r \in rws : r.id = contact_id

\* what update_contact returns: False without a statement when nothing was
\* provided, else cur.rowcount > 0 (the rows the WHERE clause matched)
UpdateResult(rws, contact_id, name, email, phone, notes) ==
    IF IsNone(name) /\ IsNone(email) /\ IsNone(phone) /\ IsNone(notes)
    THEN FALSE
    ELSE \E r \in rws : r.id = contact_id

update_contact(rws, contact_id, name, email, phone, notes) ==
    [rows |-> IF IsNone(name) /\ IsNone(email) /\ IsNone(phone) /\ IsNone(notes)
              THEN rws
              ELSE {IF r.id = contact_id THEN SetProvided(r, name, email, phone, notes) ELSE r
                    : r \in rws},
     val |-> UpdateResult(rws, contact_id, name, email, phone, notes)]

delete_contact(rws, contact_id) ==
    [rows |-> {r \in rws : r.id # contact_id},
     val |-> \E r \in rws : r.id = contact_id]

----------------------------------------------------------------------------
(* The accessor called directly on an initialized, empty database:         *)
(* create, delete, list and get.                                           *)

Names == {<<"a">>, <<"b">>}
Emails == {None, Some(<<"a">>)}
Timestamps == {<<"T", "0">>}
CallIds == 1..MaxId
Limits == (0 - 2)..(MaxId + 1)

Init ==
    /\ rows = {}
    /\ seq = 0
    /\ issued = <<>>
    /\ ret = NoCall
    /\ fs = InitialFiles
    /\ pc = "menu"
    /\ loc = NoLocals

Create ==
    \E name \in Names, email \in Emails, created_at \in Timestamps :
        LET c == create_contact(rows, seq, name, email, None, None, created_at)
        IN  /\ c.val <= MaxId
            /\ rows' = c.rows
            /\ seq' = c.seq
            /\ issued' = Append(issued, c.val)
            /\ ret' = Returned("create", <<name, email, None, None>>, c.val)
            /\ UNCHANGED <<fs, pc, loc>>

List ==
    \E limit \in Limits :
        /\ ret' = Returned("list", <<limit>>, list_contacts(rows, limit))
        /\ UNCHANGED <<rows, seq, issued, fs, pc, loc>>

Get ==
    \E contact_id \in CallIds :
        /\ ret' = Returned("get", <<contact_id>>, get_contact(rows, contact_id))
        /\ UNCHANGED <<rows, seq, issued, fs, pc, loc>>

Delete ==
    \E contact_id \in CallIds :
        LET d == delete_contact(rows, contact_id)
        IN  /\ rows' = d.rows
            /\ ret' = Returned("delete", <<contact_id>>, d.val)
            /\ UNCHANGED <<seq, issued, fs, pc, loc>>

Next == Create \/ List \/ Get \/ Delete

Spec == Init /\ [][Next]_vars

----------------------------------------------------------------------------
(* update_contact called on any table of at most MaxRows rows.             *)

\* the tables the other specifications start from hold at most MaxRows rows
MaxRows == 2

\* the tables with identifiers in 1..MaxRows whose rows are drawn from content,
\* a set of [name, email, phone, notes, created_at] records
Tables(content) ==
    LET absent == [name |-> <<"-">>, email |-> None, phone |-> None, notes |-> None,
                   created_at |-> <<>>]
    IN  {{Row(i, f[i].name, f[i].email, f[i].phone, f[i].notes, f[i].created_at)
            : i \in {j \in 1..MaxRows : f[j] # absent}}
         : f \in [1..MaxRows -> content \cup {absent}]}

\* any table is what creates, updates and deletes on an empty database left
InitTable(content) ==
    /\ rows \in Tables(content)
    /\ seq = MaxRows
    /\ issued = [i \in 1..MaxRows |-> i]
    /\ ret = NoCall
    /\ fs = InitialFiles
    /\ pc = "menu"
    /\ loc = NoLocals

UpdateContent ==
    [name : Names, email : Emails, phone : {None, Some(<<>>)},
     notes : {None, Some(<<"b">>)}, created_at : Timestamps]

NewNames == {None, Some(<<"b">>)}
NewEmails == {None, Some(<<"a">>)}
NewPhones == {None, Some(<<>>)}
NewNotes == {None, Some(<<"b">>)}

UpdateInit == InitTable(UpdateContent)

Update ==
    \E contact_id \in 1..MaxRows, name \in NewNames, email \in NewEmails,
       phone \in NewPhones, notes \in NewNotes :
        LET u == update_contact(rows, contact_id, name, email, phone, notes)
        IN  /\ rows' = u.rows
            /\ ret' = Returned("update", <<contact_id, name, email, phone, notes>>, u.val)
            /\ UNCHANGED <<seq, issued, fs, pc, loc>>

UpdateSpec == UpdateInit /\ [][Update]_vars

----------------------------------------------------------------------------
(* search_contacts called on any table of at most MaxRows rows.            *)

\* search terms hold at most MaxTermLen characters
MaxTermLen == 2

SearchChars == {"a", "B", "%", "_"}

SearchTerms == UNION {[1..n -> SearchChars] : n \in 0..MaxTermLen}

SearchContent ==
    [name : {<<"a", "b">>, <<"A">>}, email : {None, Some(<<"_">>)}, phone : {None},
     notes : {None, Some(<<"b", "%">>)}, created_at : Timestamps]

SearchInit == InitTable(SearchContent)

Search ==
    \E term \in SearchTerms :
        /\ ret' = Returned("search", <<term>>, search_contacts(rows, term))
        /\ UNCHANGED <<rows, seq, issued, fs, pc, loc>>

SearchSpec == SearchInit /\ [][Search]_vars

----------------------------------------------------------------------------
(* export_to_csv called on any table of at most MaxRows rows.              *)

ExportContent ==
    [name : {<<"a">>, <<",", "\"">>}, email : {None, Some(<<>>), Some(<<"b">>)},
     phone : {None, Some(<<"1">>)}, notes : {None, Some(<<"c", "\n">>)},
     created_at : Timestamps]

ExportInit == InitTable(ExportContent)

Export ==
    \E csv_filename \in {DefaultCsvFilename, CurrentDirectory} :
        LET e == export_to_csv(rows, fs, csv_filename)
        IN  /\ fs' = e.fs
            /\ ret' = e.ret
            /\ UNCHANGED <<rows, seq, issued, pc, loc>>

ExportSpec == ExportInit /\ [][Export]_vars

----------------------------------------------------------------------------
(* The menu loop.  Each action is one prompt: it consumes one input (a     *)
(* line of text, or a KeyboardInterrupt raised inside input()) and runs    *)
(* the loop up to the next prompt.                                         *)

\* safe_input(prompt, default): default and the result are None or Some(text)
safe_input(inp, default) ==
    IF inp.kind = "interrupt" THEN default
    ELSE LET value == strip(inp.text)
         IN  IF value = <<>> /\ ~IsNone(default) THEN default ELSE Some(value)

\* "not x" for x None or a text
Falsy(v) == IsNone(v) \/ Val(v) = <<>>

\* the default of the limit prompt, and the limit taken on ValueError
DefaultLimit == 100

DefaultLimitText == <<"1", "0", "0">>

\* a confirmation prompt whose default confirms
ConfirmDefaultYes == <<"s">>

\* the default of the confirmation prompt
ConfirmDefault == <<"n">>

\* confirm.lower() in ("s", "y", "sim", "yes")
IsAffirmative(confirm) ==
    lower(confirm) \in {<<"s">>, <<"y">>, <<"s", "i", "m">>, <<"y", "e", "s">>}

\* a numeral of twenty digits: more than a 64-bit integer holds
HugeNumeral == [i \in 1..20 |-> "9"]

MenuInputs ==
    {Line(<<Digits[d]>>) : d \in 2..10} \cup {Line(<<>>), Line(<<"x">>), Interrupt}
NameInputs == {Line(<<"a">>), Line(<<" ">>), Line(<<>>), Interrupt}
EmailInputs == {Line(<<>>), Interrupt}
PhoneInputs == {Line(<<>>)}
NotesInputs == {Line(<<>>), Interrupt}
LimitInputs ==
    {Line(<<>>), Line(<<"1">>), Line(<<"-", "1">>), Line(<<"x">>), Line(HugeNumeral), Interrupt}
IdInputs ==
    {Line(<<"1">>), Line(<<" ", "2">>), Line(<<"x">>), Line(<<>>), Line(HugeNumeral), Interrupt}
TermInputs == {Line(<<"A">>), Line(<<>>), Interrupt}
NewNameInputs == {Line(<<"b">>), Line(<<" ">>), Line(<<>>), Interrupt}
NewEmailInputs == {Line(<<>>)}
NewPhoneInputs == {Line(<<>>)}
NewNotesInputs == {Line(<<>>), Interrupt}
ConfirmInputs ==
    {Line(<<"s">>), Line(<<"Y">>), Line(<<"S", "i", "m">>), Line(<<"y", "e", "s">>),
     Line(<<"n">>), Line(<<"s", "s">>), Line(<<>>), Interrupt}
ExportInputs == {Line(<<>>), Line(CurrentDirectory), Interrupt}
BackupInputs == {Line(<<>>), Line(DB_FILENAME), Line(NoSuchDirPath), Interrupt}

ShellInit ==
    /\ rows = {}
    /\ seq = 0
    /\ issued = <<>>
    /\ ret = NoCall
    /\ fs = InitialFiles
    /\ pc = "menu"
    /\ loc = NoLocals

\* lines 181-183 and the dispatch on choice
MenuChoice ==
    \E inp \in MenuInputs :
        LET choice == safe_input(inp, None)
            c == IF Falsy(choice) THEN <<>> ELSE Val(choice)
        IN  /\ pc = "menu"
            /\ loc' = Done(inp)
            /\ ret' = NoCall
            /\ pc' = CASE c = <<"1">> -> "create_name"
                       [] c = <<"2">> -> "list_limit"
                       [] c = <<"3">> -> "get_id"
                       [] c = <<"4">> -> "search_term"
                       [] c = <<"5">> -> "update_id"
                       [] c = <<"6">> -> "delete_id"
                       [] c = <<"7">> -> "export_file"
                       [] c = <<"8">> -> "backup_file"
                       [] c = <<"9">> -> "exited"
                       [] OTHER -> "menu"
            /\ UNCHANGED <<rows, seq, issued, fs>>

\* lines 185-188
CreateName ==
    \E inp \in NameInputs :
        LET name == safe_input(inp, None)
        IN  /\ pc = "create_name"
            /\ IF Falsy(name)
               THEN loc' = Done(inp) /\ pc' = "menu"
               ELSE loc' = [loc EXCEPT !.name = name, !.input = inp] /\ pc' = "create_email"
            /\ UNCHANGED <<rows, seq, issued, ret, fs>>

\* line 189
CreateEmail ==
    \E inp \in EmailInputs :
        /\ pc = "create_email"
        /\ loc' = [loc EXCEPT !.email = safe_input(inp, None), !.input = inp]
        /\ pc' = "create_phone"
        /\ UNCHANGED <<rows, seq, issued, ret, fs>>

\* line 190
CreatePhone ==
    \E inp \in PhoneInputs :
        /\ pc = "create_phone"
        /\ loc' = [loc EXCEPT !.phone = safe_input(inp, None), !.input = inp]
        /\ pc' = "create_notes"
        /\ UNCHANGED <<rows, seq, issued, ret, fs>>

\* lines 191-193
CreateNotes ==
    \E inp \in NotesInputs, created_at \in Timestamps :
        LET notes == safe_input(inp, None)
            c == create_contact(rows, seq, Val(loc.name), loc.email, loc.phone, notes, created_at)
        IN  /\ pc = "create_notes"
            /\ c.val <= MaxMenuId
            /\ loc' = Done(inp)
            /\ rows' = c.rows
            /\ seq' = c.seq
            /\ issued' = Append(issued, c.val)
            /\ ret' = Returned("create", <<Val(loc.name), loc.email, loc.phone, notes>>, c.val)
            /\ pc' = "menu"
            /\ UNCHANGED fs

\* lines 196-206: binding a limit beyond 64 bits raises OverflowError, uncaught
ListLimit ==
    \E inp \in LimitInputs :
        LET limit_str == safe_input(inp, Some(DefaultLimitText))
            parsed == ParseInt(Val(limit_str))
            limit == IF IsNone(parsed) THEN PyInt(DefaultLimit) ELSE Val(parsed)
        IN  /\ pc = "list_limit"
            /\ loc' = Done(inp)
            /\ IF limit.fits
               THEN /\ ret' = Returned("list", <<limit.v>>, list_contacts(rows, limit.v))
                    /\ pc' = "menu"
               ELSE /\ ret' = Raised("list", <<limit>>, "OverflowError")
                    /\ pc' = "crashed"
            /\ UNCHANGED <<rows, seq, issued, fs>>

\* int(id_str) under "except (ValueError, TypeError)": None when it raised
ParseId(id_str) == IF IsNone(id_str) THEN None ELSE ParseInt(Val(id_str))

\* lines 209-216
GetId ==
    \E inp \in IdInputs :
        LET cid == ParseId(safe_input(inp, None))
        IN  /\ pc = "get_id"
            /\ loc' = Done(inp)
            /\ IF IsNone(cid) THEN ret' = ret /\ pc' = "menu"
               ELSE IF Val(cid).fits
               THEN /\ ret' = Returned("get", <<Val(cid).v>>, get_contact(rows, Val(cid).v))
                    /\ pc' = "menu"
               ELSE /\ ret' = Raised("get", <<Val(cid)>>, "OverflowError")
                    /\ pc' = "crashed"
            /\ UNCHANGED <<rows, seq, issued, fs>>

\* lines 219-228
SearchTerm ==
    \E inp \in TermInputs :
        LET term == safe_input(inp, None)
        IN  /\ pc = "search_term"
            /\ loc' = Done(inp)
            /\ IF Falsy(term) THEN ret' = ret
               ELSE ret' = Returned("search", <<Val(term)>>, search_contacts(rows, Val(term)))
            /\ pc' = "menu"
            /\ UNCHANGED <<rows, seq, issued, fs>>

\* lines 231-241
UpdateId ==
    \E inp \in IdInputs :
        LET cid == ParseId(safe_input(inp, None))
        IN  /\ pc = "update_id"
            /\ IF IsNone(cid) THEN ret' = ret /\ pc' = "menu" /\ loc' = Done(inp)
               ELSE IF ~Val(cid).fits
               THEN /\ ret' = Raised("get", <<Val(cid)>>, "OverflowError")
                    /\ pc' = "crashed"
                    /\ loc' = Done(inp)
               ELSE IF IsNone(get_contact(rows, Val(cid).v))
               THEN /\ ret' = Returned("get", <<Val(cid).v>>, None)
                    /\ pc' = "menu"
                    /\ loc' = Done(inp)
               ELSE /\ ret' = Returned("get", <<Val(cid).v>>, get_contact(rows, Val(cid).v))
                    /\ pc' = "update_name"
                    /\ loc' = [loc EXCEPT !.cid = cid, !.input = inp]
            /\ UNCHANGED <<rows, seq, issued, fs>>

\* line 242
UpdateName ==
    \E inp \in NewNameInputs :
        /\ pc = "update_name"
        /\ loc' = [loc EXCEPT !.name = safe_input(inp, None), !.input = inp]
        /\ pc' = "update_email"
        /\ UNCHANGED <<rows, seq, issued, ret, fs>>

\* line 243
UpdateEmail ==
    \E inp \in NewEmailInputs :
        /\ pc = "update_email"
        /\ loc' = [loc EXCEPT !.email = safe_input(inp, None), !.input = inp]
        /\ pc' = "update_phone"
        /\ UNCHANGED <<rows, seq, issued, ret, fs>>

\* line 244
UpdatePhone ==
    \E inp \in NewPhoneInputs :
        /\ pc = "update_phone"
        /\ loc' = [loc EXCEPT !.phone = safe_input(inp, None), !.input = inp]
        /\ pc' = "update_notes"
        /\ UNCHANGED <<rows, seq, issued, ret, fs>>

\* x if x != "" else None
BlankToNone(v) == IF v = Some(<<>>) THEN None ELSE v

\* lines 245-258
UpdateNotes ==
    \E inp \in NewNotesInputs :
        LET new_notes == safe_input(inp, None)
            cid == Val(loc.cid).v
            name == BlankToNone(loc.name)
            email == BlankToNone(loc.email)
            phone == BlankToNone(loc.phone)
            notes == BlankToNone(new_notes)
            u == update_contact(rows, cid, name, email, phone, notes)
        IN  /\ pc = "update_notes"
            /\ loc' = Done(inp)
            /\ rows' = u.rows
            /\ ret' = Returned("update", <<cid, name, email, phone, notes>>, u.val)
            /\ pc' = "menu"
            /\ UNCHANGED <<seq, issued, fs>>

\* lines 261-266
DeleteId ==
    \E inp \in IdInputs :
        LET cid == ParseId(safe_input(inp, None))
        IN  /\ pc = "delete_id"
            /\ IF IsNone(cid)
               THEN loc' = Done(inp) /\ pc' = "menu"
               ELSE loc' = [loc EXCEPT !.cid = cid, !.input = inp] /\ pc' = "delete_confirm"
            /\ UNCHANGED <<rows, seq, issued, ret, fs>>

\* lines 267-275
DeleteConfirm ==
    \E inp \in ConfirmInputs :
        LET confirm == safe_input(inp, Some(ConfirmDefault))
            cid == Val(loc.cid)
            d == delete_contact(rows, cid.v)
        IN  /\ pc = "delete_confirm"
            /\ loc' = Done(inp)
            /\ IF ~IsAffirmative(Val(confirm))
               THEN rows' = rows /\ ret' = ret /\ pc' = "menu"
               ELSE IF cid.fits
               THEN /\ rows' = d.rows
                    /\ ret' = Returned("delete", <<cid.v>>, d.val)
                    /\ pc' = "menu"
               ELSE /\ rows' = rows
                    /\ ret' = Raised("delete", <<cid>>, "OverflowError")
                    /\ pc' = "crashed"
            /\ UNCHANGED <<seq, issued, fs>>

\* lines 278-280: no handler around export_to_csv
ExportFile ==
    \E inp \in ExportInputs :
        LET fname == safe_input(inp, Some(DefaultCsvFilename))
            e == export_to_csv(rows, fs, Val(fname))
        IN  /\ pc = "export_file"
            /\ loc' = Done(inp)
            /\ fs' = e.fs
            /\ ret' = e.ret
            /\ pc' = IF e.ret.exc = "none" THEN "menu" ELSE "crashed"
            /\ UNCHANGED <<rows, seq, issued>>

\* lines 283-288: only FileNotFoundError is handled
BackupFile ==
    \E inp \in BackupInputs :
        LET backup_name == safe_input(inp, None)
            b == backup_db(fs, IF Falsy(backup_name) THEN None ELSE backup_name)
        IN  /\ pc = "backup_file"
            /\ loc' = Done(inp)
            /\ fs' = b.fs
            /\ ret' = b.ret
            /\ pc' = IF b.ret.exc \in {"none", "FileNotFoundError"} THEN "menu" ELSE "crashed"
            /\ UNCHANGED <<rows, seq, issued>>

ShellNext ==
    \/ MenuChoice
    \/ CreateName \/ CreateEmail \/ CreatePhone \/ CreateNotes
    \/ ListLimit
    \/ GetId
    \/ SearchTerm
    \/ UpdateId \/ UpdateName \/ UpdateEmail \/ UpdatePhone \/ UpdateNotes
    \/ DeleteId \/ DeleteConfirm
    \/ ExportFile
    \/ BackupFile

ShellSpec == ShellInit /\ [][ShellNext]_vars

----------------------------------------------------------------------------
(* Claims about the accessor.                                              *)

StrictlyIncreasing(s) == \A i, j \in 1..Len(s) : i < j => s[i] < s[j]

\* C1: over any sequence of creates and deletes, the identifier each create
\* returns is greater than every identifier an earlier create returned (so it
\* was never returned before, deleted or not), it is the identifier of the row
\* just stored, and no two stored rows share an identifier.
C1_FreshIncreasingIds ==
    /\ StrictlyIncreasing(issued)
    /\ \A r, q \in rows : r.id = q.id => r = q
    /\ ret.op = "create" =>
           /\ Val(ret.val) = issued[Len(issued)]
           /\ \E r \in rows : r.id = Val(ret.val) /\ r.name = ret.args[1]

\* a create that follows the deletion of the row with the largest identifier
C1_Witness ==
    /\ ret.op = "create"
    /\ Len(issued) = 3
    /\ Ids(rows) = {1, 3}

\* C5, as claimed: for every limit (zero and negative included) list(limit)
\* returns no more than limit rows (none when limit is negative), and they are
\* the stored rows with the highest identifiers, in strictly descending order.
C5_ListAtMostLimit ==
    ret.op = "list" =>
        LET limit == ret.args[1]
            got == Val(ret.val)
        IN  /\ Len(got) <= Max2(limit, 0)
            /\ \A i \in 1..Len(got) : got[i] \in rows
            /\ \A i, j \in 1..Len(got) : i < j => got[i].id > got[j].id
            /\ \A r \in rows : (\A i \in 1..Len(got) : got[i] # r) =>
                   \A i \in 1..Len(got) : r.id < got[i].id

ArgsOfUpdate(a) == [contact_id |-> a[1], name |-> a[2], email |-> a[3],
                    phone |-> a[4], notes |-> a[5]]

NothingProvided(a) == IsNone(a.name) /\ IsNone(a.email) /\ IsNone(a.phone) /\ IsNone(a.notes)

\* C2: update on a stored id replaces exactly the provided fields with the given
\* values; the row's other fields, its id and its created_at keep their values,
\* and every other row of the table is unchanged.
C2_UpdateFrame ==
    [][ret'.op = "update" =>
        LET a == ArgsOfUpdate(ret'.args)
        IN  (\E r \in rows : r.id = a.contact_id) =>
                /\ Cardinality(rows') = Cardinality(rows)
                /\ \A r \in rows : \E q \in rows' :
                       /\ q.id = r.id
                       /\ r.id # a.contact_id => q = r
                       /\ r.id = a.contact_id =>
                              /\ q.name = (IF IsNone(a.name) THEN r.name ELSE Val(a.name))
                              /\ q.email = (IF IsNone(a.email) THEN r.email ELSE a.email)
                              /\ q.phone = (IF IsNone(a.phone) THEN r.phone ELSE a.phone)
                              /\ q.notes = (IF IsNone(a.notes) THEN r.notes ELSE a.notes)
                              /\ q.created_at = r.created_at
       ]_vars

\* an update of row 1 that provided name and notes only, beside another row:
\* the email row 1 had is still there
C2_Witness ==
    /\ ret.op = "update"
    /\ ret.args = <<1, Some(<<"b">>), None, None, Some(<<"b">>)>>
    /\ Val(ret.val) = TRUE
    /\ Ids(rows) = {1, 2}
    /\ \E r \in rows : r.id = 1 /\ r.name = <<"b">> /\ r.email = Some(<<"a">>)
                       /\ r.notes = Some(<<"b">>)

\* C3: update returns true exactly when the id is stored and at least one field
\* is provided; it raises nothing, and whenever it returns false the table is
\* what it was before the call (no row created, none changed).
C3_UpdateResult ==
    [][ret'.op = "update" =>
        LET a == ArgsOfUpdate(ret'.args)
        IN  /\ ret'.exc = "none"
            /\ Val(ret'.val) = ((\E r \in rows : r.id = a.contact_id) /\ ~NothingProvided(a))
            /\ Val(ret'.val) = FALSE => rows' = rows
       ]_vars

\* an update of a stored id with no field provided returned false
C3_Witness ==
    /\ ret.op = "update"
    /\ NothingProvided(ArgsOfUpdate(ret.args))
    /\ \E r \in rows : r.id = ret.args[1]
    /\ Val(ret.val) = FALSE

\* whether term occurs in s, letter case ignored
OccursIgnoringCase(term, s) == IsSubstring(lower(term), lower(s))

\* C4, as claimed: for every table and every term (those holding % or _
\* included) search(term) returns exactly the contacts in which term occurs as a
\* case-insensitive substring of name, email, phone or notes (an absent field
\* matching nothing), by identifier descending; search("") returns every contact.
C4_SearchIsSubstringMatch ==
    ret.op = "search" =>
        LET term == ret.args[1]
        IN  Val(ret.val) = OrderByIdDesc({r \in rows :
                \/ OccursIgnoringCase(term, r.name)
                \/ \E v \in {r.email, r.phone, r.notes} :
                       ~IsNone(v) /\ OccursIgnoringCase(term, Val(v))})

\* C7, as claimed: the exported file reads back as the header row followed by
\* rows that match list(10000) field for field and in the same order: the id by
\* its decimal text, a text by itself, and an absent field as absent (here: as
\* no text at all, which no field read from a file is).
C7_RoundTripExact ==
    (ret.op = "export" /\ ret.exc = "none") =>
        LET read == ReadCsv(ret.wrote)
            listed == list_contacts(rows, ExportLimit)
        IN  /\ Len(read) = Len(listed) + 1
            /\ read[1] = headers
            /\ \A i \in 1..Len(listed) :
                   /\ read[i + 1] = RowTexts(listed[i])
                   /\ \A v \in {listed[i].email, listed[i].phone, listed[i].notes} : ~IsNone(v)

\* C7, amended: the exported file reads back as the header row followed by one
\* row per row of list(10000), in the same order, each field being the text of
\* the listed value: the id in decimal, a text unchanged, and the empty text for
\* an absent field as for an empty one.
C7_RoundTripAsText ==
    (ret.op = "export" /\ ret.exc = "none") =>
        LET read == ReadCsv(ret.wrote)
            listed == list_contacts(rows, ExportLimit)
        IN  /\ Len(read) = Len(listed) + 1
            /\ read[1] = headers
            /\ \A i \in 1..Len(listed) :
                   /\ Len(read[i + 1]) = 6
                   /\ read[i + 1][1] = DecimalText(listed[i].id)
                   /\ read[i + 1][2] = listed[i].name
                   /\ read[i + 1][3] = (IF IsNone(listed[i].email) THEN <<>> ELSE Val(listed[i].email))
                   /\ read[i + 1][4] = (IF IsNone(listed[i].phone) THEN <<>> ELSE Val(listed[i].phone))
                   /\ read[i + 1][5] = (IF IsNone(listed[i].notes) THEN <<>> ELSE Val(listed[i].notes))
                   /\ read[i + 1][6] = listed[i].created_at

\* an export of two rows, one with a name that needs quoting and notes holding
\* a line break, one with an absent and one with an empty email
C7_Witness ==
    /\ ret.op = "export"
    /\ ret.exc = "none"
    /\ Len(ReadCsv(ret.wrote)) = 3
    /\ \E r \in rows : r.name = <<",", "\"">> /\ r.notes = Some(<<"c", "\n">>) /\ r.email = None
    /\ \E r \in rows : r.email = Some(<<>>)

----------------------------------------------------------------------------
(* Claims about the menu loop.                                             *)

\* the new row of a create that returned id
RowOf(rws, id) == CHOOSE r \in rws : r.id = id

\* C6, as claimed: option 1 with the three optional prompts answered by an
\* empty line stores a record whose email, phone and notes are absent (NULL),
\* not empty texts, as create(name) called directly does.
C6_EmptyAnswersStoredAsNull ==
    [][(/\ pc = "create_notes"
        /\ ret'.op = "create"
        /\ loc.email = Some(<<>>)
        /\ loc.phone = Some(<<>>)
        /\ loc'.input = Line(<<>>))
       => LET r == RowOf(rows', Val(ret'.val))
          IN  IsNone(r.email) /\ IsNone(r.phone) /\ IsNone(r.notes)
      ]_vars

\* what was typed at a prompt, surrounding blanks and letter case aside
Typed(inp) == lower(strip(inp.text))

EnteredAffirmative(inp) ==
    /\ inp.kind = "line"
    /\ Typed(inp) \in {<<"s">>, <<"y">>, <<"s", "i", "m">>, <<"y", "e", "s">>}

\* C8: delete_contact is called for an id only by the confirmation prompt of an
\* option-6 request in which int() accepted the id entered and an affirmative
\* answer (s, y, sim, yes in any letter case) was then entered; rows leave the
\* table by no other step; and with an empty line, an interrupt or any other
\* answer at the confirmation prompt the table is left unchanged.
C8_DeleteOnlyAfterConfirmation ==
    [][/\ (ret'.op = "delete" /\ ret' # ret) =>
              /\ pc = "delete_confirm"
              /\ ~IsNone(loc.cid)
              /\ ret'.args = <<IF Val(loc.cid).fits THEN Val(loc.cid).v ELSE Val(loc.cid)>>
              /\ EnteredAffirmative(loc'.input)
       /\ (\E r \in rows : r \notin rows' /\ r.id \notin Ids(rows')) =>
              (ret'.op = "delete" /\ ret' # ret)
       /\ (pc = "delete_confirm" /\ ~EnteredAffirmative(loc'.input)) =>
              (rows' = rows /\ ret'.op # "delete")
      ]_vars

\* option 6 deleted the only contact after "Sim" was entered
C8_Witness ==
    /\ pc = "menu"
    /\ ret.op = "delete"
    /\ Val(ret.val) = TRUE
    /\ loc.input = Line(<<"S", "i", "m">>)
    /\ rows = {}
    /\ seq = 1

\* C9, as claimed: whatever is entered at the prompts, no action ends the
\* process through an unhandled error, and the loop ends only when option 9 is
\* chosen.
C9_LoopEndsOnlyByOption9 ==
    /\ pc # "crashed"
    /\ pc = "exited" => (loc.input.kind = "line" /\ strip(loc.input.text) = <<"9">>)

IsBlank(text) == \A i \in 1..Len(text) : text[i] \in Whitespace

\* C10: in every state the menu loop reaches from an empty table every stored
\* contact has a name that is present and not empty (nor only blanks); option 1
\* inserts nothing when the name entered is empty or only blanks, and option 5
\* leaves the name as it is when the new name entered is.
C10_NamesNeverEmpty ==
    /\ [](\A r \in rows : ~IsBlank(r.name))
    /\ [][/\ (pc = "create_name" /\ loc'.input.kind = "line" /\ IsBlank(loc'.input.text)) =>
                 (pc' = "menu" /\ rows' = rows)
          /\ (pc = "update_notes" /\ ~IsNone(loc.name) /\ IsBlank(Val(loc.name))) =>
                 \A r \in rows : \E q \in rows' : q.id = r.id /\ q.name = r.name
         ]_vars

\* two contacts, one renamed by option 5, and an option-5 request just ended in
\* which the new name was left blank: nothing was applied
C10_Witness ==
    /\ pc = "menu"
    /\ ret.op = "update"
    /\ ret.args[2] = None
    /\ Val(ret.val) = FALSE
    /\ Cardinality(rows) = 2
    /\ \E r \in rows : r.name = <<"b">>
    /\ \E r \in rows : r.name = <<"a">>

====
